---- MODULE Spec2Model ----
(***************************************************************************)
(* A model of src/main.rs (Rust Book ch. 6, "Enums and Pattern Matching"). *)
(*                                                                         *)
(* Values of the enums are records [tag, payload]; a `match` is a sequence *)
(* of patterns tried in declaration order.  Every function of the program  *)
(* that dispatches is an operator returning what the call did: the arm it  *)
(* ran, the payload it bound, what it printed, and either its return value *)
(* or a panic.                                                             *)
(*                                                                         *)
(* Spec      : one run of main(), the two random choices nondeterministic. *)
(* SpecCalls : each dispatching function applied to inputs drawn from      *)
(*             bounded sets of its parameter type.                         *)
(* SpecIter  : the derived enum iterators, created and drained repeatedly. *)
(***************************************************************************)
EXTENDS Integers, Sequences, FiniteSets, TLC

VARIABLES
    overflow_checks,  \* build profile: TRUE = debug (`i + 1` panics on overflow), FALSE = release (wraps)
    pc,               \* Spec: the next statement of main() to run, or "done" / "aborted"
    frame,            \* Spec: the locals of the function that ran last
    calls,            \* Spec: the calls made by the step that ran last, in order
    out,              \* Spec: the lines printed so far
    call,             \* SpecCalls: the function applied last and its argument
    res,              \* SpecCalls: what that application did
    it,               \* SpecIter: the enum iterator being drained
    collected         \* SpecIter: the items it has yielded, and each enum's last full enumeration

vars == <<overflow_checks, pc, frame, calls, out, call, res, it, collected>>

----------------------------------------------------------------------------
(* Bounds of the model. *)

\* half-width of each window of sampled i32 values (around 0, i32::MIN, i32::MAX)
MaxI == 2
\* dice rolls range over 0..MaxRoll
MaxRoll == 10
\* coordinates and colour components of Message payloads range over 0..MaxCoord
MaxCoord == 1

\* the texts a Message::Write may carry
Strings == {"hello", ""}

----------------------------------------------------------------------------
(* Values. *)

\* i32
I32Max == 2147483647
I32Min == -I32Max - 1

I32Samples ==
    (-MaxI .. MaxI) \cup {5}
        \cup {I32Min + k : k \in 0 .. MaxI} \cup {I32Max - k : k \in 0 .. MaxI}

\* a value of an enum: its one tag and that tag's payload
Variant(tag, payload) == [tag |-> tag, payload |-> payload]

Unit == Variant("()", <<>>)

\* enum Option<T>
None == Variant("None", <<>>)
Some(x) == Variant("Some", <<x>>)

\* enum Coin, in declaration order
Coin == <<"Penny", "Nickel", "Dime", "Quarter">>

\* enum UsState, in declaration order
UsState ==
    << "Alabama", "Alaska", "Arizona", "Arkansas", "California", "Colorado",
       "Connecticut", "Delaware", "Florida", "Georgia", "Hawaii", "Idaho",
       "Illinois", "Indiana", "Iowa", "Kansas", "Kentucky", "Louisiana",
       "Maine", "Maryland", "Massachusetts", "Michigan", "Minnesota",
       "Mississippi", "Missouri", "Montana", "Nebraska", "Nevada",
       "NewHampshire", "NewJersey", "NewMexico", "NewYork", "NorthCarolina",
       "NorthDakota", "Ohio", "Oklahoma", "Oregon", "Pennsylvania",
       "RhodeIsland", "SouthCarolina", "SouthDakota", "Tennessee", "Texas",
       "Utah", "Vermont", "Virginia", "Washington", "WestVirginia",
       "Wisconsin", "Wyoming" >>

\* a Default that is the first variant
UsState_default_first == Variant("Alabama", <<>>)

\* impl Default for UsState
UsState_default == Variant("Virginia", <<>>)

\* enum Coin2, in declaration order; Quarter carries a UsState
Coin2 == <<"Penny", "Nickel", "Dime", "Quarter">>

Range(s) == {s[i] : i \in 1 .. Len(s)}

CoinValues == {Variant(t, <<>>) : t \in Range(Coin)}

Coin2Values ==
    {Variant(t, <<>>) : t \in Range(Coin2) \ {"Quarter"}}
        \cup {Variant("Quarter", <<Variant(s, <<>>)>>) : s \in Range(UsState)}

OptionI32Values == {None} \cup {Some(i) : i \in I32Samples}

\* enum Message
MessageValues ==
    {Variant("Quit", <<>>)}
        \cup {Variant("Move", <<x, y>>) : x \in 0 .. MaxCoord, y \in 0 .. MaxCoord}
        \cup {Variant("Write", <<s>>) : s \in Strings}
        \cup {Variant("ChangeColor", <<r, g, b>>) :
                r \in 0 .. MaxCoord, g \in 0 .. MaxCoord, b \in 0 .. MaxCoord}

----------------------------------------------------------------------------
(* match: patterns, tried in declaration order. *)

\* `Enum::Tag`, `Enum::Tag(x)` (bind) or `Enum::Tag(_)` (no bind)
PVariant(tag, bind) == [kind |-> "variant", tag |-> tag, bind |-> bind]
\* a literal such as `3`
PLit(n) == [kind |-> "lit", lit |-> n]
\* a catch-all that binds the value, such as `other`
PBind == [kind |-> "bind"]
\* the placeholder `_`
PWild == [kind |-> "wild"]

Matches(p, v) ==
    CASE p.kind = "variant" -> v.tag = p.tag
      [] p.kind = "lit" -> v = p.lit
      [] p.kind = "bind" -> TRUE
      [] p.kind = "wild" -> TRUE

\* what the pattern binds of the value it matched
Bound(p, v) ==
    CASE p.kind = "variant" -> IF p.bind THEN v.payload ELSE <<>>
      [] p.kind = "lit" -> <<>>
      [] p.kind = "bind" -> <<v>>
      [] p.kind = "wild" -> <<>>

\* the arms of `pats` that match v
MatchingArms(pats, v) == {i \in 1 .. Len(pats) : Matches(pats[i], v)}

\* the first arm, trying the arms in the order `order`, that matches v (0: none)
RECURSIVE FirstMatchIn(_, _, _)
FirstMatchIn(pats, v, order) ==
    IF order = <<>> THEN 0
    ELSE IF Matches(pats[Head(order)], v) THEN Head(order)
    ELSE FirstMatchIn(pats, v, Tail(order))

DeclarationOrder(pats) == [i \in 1 .. Len(pats) |-> i]

\* the arm a `match v { pats }` runs
FirstMatch(pats, v) == FirstMatchIn(pats, v, DeclarationOrder(pats))

\* what a call did: it ran arm `arm`, which bound `bound` and printed `printed`,
\* and returned `ret` (<<value>>) ...
Returned(arm, bound, printed, value) ==
    [arm |-> arm, bound |-> bound, out |-> printed, did |-> <<>>, abort |-> FALSE,
     ret |-> <<value>>]
\* ... or panicked there, returning nothing
Panicked(arm, bound, printed, msg) ==
    [arm |-> arm, bound |-> bound, out |-> printed \o <<<<"panic", msg>>>>,
     did |-> <<>>, abort |-> TRUE, ret |-> <<>>]
\* ... having called the local functions `did` on the way
Doing(r, did) == [r EXCEPT !.did = did]

----------------------------------------------------------------------------
(* The dispatching functions. *)

\* the arms of value_in_cents with `_` in place of the Nickel pattern
value_in_cents_arms_wild ==
    << PVariant("Penny", FALSE), PWild, PVariant("Dime", FALSE), PVariant("Quarter", FALSE) >>

value_in_cents_arms ==
    << PVariant("Penny", FALSE), PVariant("Nickel", FALSE),
       PVariant("Dime", FALSE), PVariant("Quarter", FALSE) >>

\* value_in_cents with the values of the Nickel and Dime arms exchanged
value_in_cents_swapped(coin) ==
    LET arm == FirstMatch(value_in_cents_arms, coin)
        b == Bound(value_in_cents_arms[arm], coin)
    IN  CASE arm = 1 -> Returned(1, b, <<<<"Lucky penny!">>>>, 1)
          [] arm = 2 -> Returned(2, b, <<>>, 10)
          [] arm = 3 -> Returned(3, b, <<>>, 5)
          [] arm = 4 -> Returned(4, b, <<>>, 25)

\* fn value_in_cents(coin: &Coin) -> u8
value_in_cents(coin) ==
    LET arm == FirstMatch(value_in_cents_arms, coin)
        b == Bound(value_in_cents_arms[arm], coin)
    IN  CASE arm = 1 -> Returned(1, b, <<<<"Lucky penny!">>>>, 1)
          [] arm = 2 -> Returned(2, b, <<>>, 5)
          [] arm = 3 -> Returned(3, b, <<>>, 10)
          [] arm = 4 -> Returned(4, b, <<>>, 25)

value_in_cents_state_quarters_arms ==
    << PVariant("Penny", FALSE), PVariant("Nickel", FALSE),
       PVariant("Dime", FALSE), PVariant("Quarter", TRUE) >>

\* value_in_cents_state_quarters valuing the quarter of the default state apart
value_in_cents_state_quarters_by_state(coin) ==
    LET arm == FirstMatch(value_in_cents_state_quarters_arms, coin)
        b == Bound(value_in_cents_state_quarters_arms[arm], coin)
    IN  CASE arm = 1 -> Returned(1, b, <<>>, 1)
          [] arm = 2 -> Returned(2, b, <<>>, 5)
          [] arm = 3 -> Returned(3, b, <<>>, 10)
          [] arm = 4 -> Returned(4, b, <<<<"State quarter from ", b[1].tag, "!">>>>,
                                 IF b[1] = UsState_default THEN 50 ELSE 25)

\* value_in_cents_state_quarters with the Quarter arm binding the default state
\* in place of the coin's own
value_in_cents_state_quarters_default_state(coin) ==
    LET arm == FirstMatch(value_in_cents_state_quarters_arms, coin)
        b == IF arm = 4 THEN <<UsState_default>> ELSE <<>>
    IN  CASE arm = 1 -> Returned(1, b, <<>>, 1)
          [] arm = 2 -> Returned(2, b, <<>>, 5)
          [] arm = 3 -> Returned(3, b, <<>>, 10)
          [] arm = 4 -> Returned(4, b, <<<<"State quarter from ", b[1].tag, "!">>>>, 25)

\* fn value_in_cents_state_quarters(coin: &Coin2) -> u8
value_in_cents_state_quarters(coin) ==
    LET arm == FirstMatch(value_in_cents_state_quarters_arms, coin)
        b == Bound(value_in_cents_state_quarters_arms[arm], coin)
    IN  CASE arm = 1 -> Returned(1, b, <<>>, 1)
          [] arm = 2 -> Returned(2, b, <<>>, 5)
          [] arm = 3 -> Returned(3, b, <<>>, 10)
          [] arm = 4 -> Returned(4, b, <<<<"State quarter from ", b[1].tag, "!">>>>, 25)

\* `i + 1` on an i32: panics on overflow when the build checks overflow, wraps otherwise
i32_add_one(i) ==
    IF i = I32Max
    THEN IF overflow_checks THEN <<>> ELSE <<I32Min>>
    ELSE <<i + 1>>

plus_one_arms == << PVariant("None", FALSE), PVariant("Some", TRUE) >>

\* fn plus_one(x: Option<i32>) -> Option<i32>
plus_one(x) ==
    LET arm == FirstMatch(plus_one_arms, x)
        b == Bound(plus_one_arms[arm], x)
    IN  CASE arm = 1 -> Returned(1, b, <<>>, None)
          [] arm = 2 ->
                IF i32_add_one(b[1]) = <<>>
                THEN Panicked(2, b, <<>>, "attempt to add with overflow")
                ELSE Returned(2, b, <<>>, Some(i32_add_one(b[1])[1]))

plus_one_broken_arms == << PVariant("Some", TRUE), PVariant("None", FALSE) >>

\* plus_one_broken handing the value back without adding to it
plus_one_broken_keeps(x) ==
    LET arm == FirstMatch(plus_one_broken_arms, x)
        b == Bound(plus_one_broken_arms[arm], x)
    IN  CASE arm = 1 -> Returned(1, b, <<>>, Some(b[1]))
          [] arm = 2 -> Panicked(2, b, <<>>, "not yet implemented")

\* fn plus_one_broken(x: Option<i32>) -> Option<i32>
plus_one_broken(x) ==
    LET arm == FirstMatch(plus_one_broken_arms, x)
        b == Bound(plus_one_broken_arms[arm], x)
    IN  CASE arm = 1 ->
                IF i32_add_one(b[1]) = <<>>
                THEN Panicked(1, b, <<>>, "attempt to add with overflow")
                ELSE Returned(1, b, <<>>, Some(i32_add_one(b[1])[1]))
          [] arm = 2 -> Panicked(2, b, <<>>, "not yet implemented")

Message_call_arms ==
    << PVariant("Write", TRUE), PVariant("Quit", FALSE),
       PVariant("Move", TRUE), PVariant("ChangeColor", FALSE) >>

\* Message::call with the Quit arm left empty in place of its placeholder
Message_call_quit_returns(self) ==
    LET arm == FirstMatch(Message_call_arms, self)
        b == Bound(Message_call_arms[arm], self)
    IN  CASE arm = 1 -> Returned(1, b, <<<<"Message: ", b[1]>>>>, Unit)
          [] arm = 2 -> Returned(2, b, <<>>, Unit)
          [] arm = 3 -> Panicked(3, b, <<>>, "not implemented")
          [] arm = 4 -> Panicked(4, b, <<>>, "not implemented")

\* impl Message { fn call(&self) }
Message_call(self) ==
    LET arm == FirstMatch(Message_call_arms, self)
        b == Bound(Message_call_arms[arm], self)
    IN  CASE arm = 1 -> Returned(1, b, <<<<"Message: ", b[1]>>>>, Unit)
          [] arm = 2 -> Panicked(2, b, <<>>, "not implemented")
          [] arm = 3 -> Panicked(3, b, <<>>, "not implemented")
          [] arm = 4 -> Panicked(4, b, <<>>, "not implemented")

\* let dice_roll = 9;
DiceRoll == 9

catch_all_patterns_arms == << PLit(3), PLit(7), PBind >>

\* the match of catch_all_patterns with the arm for 7 forgotten
catch_all_patterns_match_no_seven(dice_roll) ==
    LET arm == FirstMatch(<< PLit(3), PBind >>, dice_roll)
        b == Bound(<< PLit(3), PBind >>[arm], dice_roll)
    IN  CASE arm = 1 -> Doing(Returned(1, b, <<>>, Unit), <<<<"add_fancy_hat">>>>)
          [] arm = 2 -> Doing(Returned(3, b, <<>>, Unit), <<<<"move_player", b[1]>>>>)

\* the match of catch_all_patterns on a roll
catch_all_patterns_match(dice_roll) ==
    LET arm == FirstMatch(catch_all_patterns_arms, dice_roll)
        b == Bound(catch_all_patterns_arms[arm], dice_roll)
    IN  CASE arm = 1 -> Doing(Returned(1, b, <<>>, Unit), <<<<"add_fancy_hat">>>>)
          [] arm = 2 -> Doing(Returned(2, b, <<>>, Unit), <<<<"remove_fancy_hat">>>>)
          [] arm = 3 -> Doing(Returned(3, b, <<>>, Unit), <<<<"move_player", b[1]>>>>)

catch_all_patterns_underscore_placeholder_arms == << PLit(3), PLit(7), PWild >>

\* the match of catch_all_patterns_underscore_placeholder on a roll
catch_all_patterns_underscore_placeholder_match(dice_roll) ==
    LET arm == FirstMatch(catch_all_patterns_underscore_placeholder_arms, dice_roll)
        b == Bound(catch_all_patterns_underscore_placeholder_arms[arm], dice_roll)
    IN  CASE arm = 1 -> Doing(Returned(1, b, <<>>, Unit), <<<<"add_fancy_hat">>>>)
          [] arm = 2 -> Doing(Returned(2, b, <<>>, Unit), <<<<"remove_fancy_hat">>>>)
          [] arm = 3 -> Doing(Returned(3, b, <<>>, Unit), <<<<"reroll">>>>)

catch_all_patterns_noop_catchall_arms == << PLit(3), PLit(7), PWild >>

\* the match of catch_all_patterns_noop_catchall on a roll
catch_all_patterns_noop_catchall_match(dice_roll) ==
    LET arm == FirstMatch(catch_all_patterns_noop_catchall_arms, dice_roll)
        b == Bound(catch_all_patterns_noop_catchall_arms[arm], dice_roll)
    IN  CASE arm = 1 -> Doing(Returned(1, b, <<>>, Unit), <<<<"add_fancy_hat">>>>)
          [] arm = 2 -> Doing(Returned(2, b, <<>>, Unit), <<<<"remove_fancy_hat">>>>)
          [] arm = 3 -> Returned(3, b, <<>>, Unit)

----------------------------------------------------------------------------
(* #[derive(EnumIter)], Vec::choose, Option::unwrap. *)

Enums == {"Coin", "Coin2", "UsState"}

EnumVariants(e) ==
    CASE e = "Coin" -> Coin
      [] e = "Coin2" -> Coin2
      [] e = "UsState" -> UsState

\* the derived iterator's variant number idx (from 0): a variant with a field is
\* built with the field's Default
EnumIter_get(e, idx) ==
    IF idx >= Len(EnumVariants(e)) THEN None
    ELSE IF e = "Coin2" /\ EnumVariants(e)[idx + 1] = "Quarter"
         THEN Some(Variant("Quarter", <<UsState_default>>))
         ELSE Some(Variant(EnumVariants(e)[idx + 1], <<>>))

\* E::iter()
EnumIter_new(e) == [enum |-> e, idx |-> 0]

\* Iterator::next stopping one variant early
EnumIter_next_short(i) ==
    IF i.idx + 1 >= Len(EnumVariants(i.enum))
    THEN [item |-> None, it |-> [i EXCEPT !.idx = Len(EnumVariants(i.enum))]]
    ELSE [item |-> EnumIter_get(i.enum, i.idx), it |-> [i EXCEPT !.idx = i.idx + 1]]

\* Iterator::next on the derived iterator: the item and the iterator afterwards
EnumIter_next(i) ==
    IF i.idx >= Len(EnumVariants(i.enum))
    THEN [item |-> None, it |-> [i EXCEPT !.idx = Len(EnumVariants(i.enum))]]
    ELSE [item |-> EnumIter_get(i.enum, i.idx), it |-> [i EXCEPT !.idx = i.idx + 1]]

\* the states the iterator of enum e can be in
EnumIter_states(e) == {[enum |-> e, idx |-> k] : k \in 0 .. Len(EnumVariants(e))}

\* .collect::<Vec<_>>(): next() until it answers None
collect(i) ==
    LET drain[j \in EnumIter_states(i.enum)] ==
            LET n == EnumIter_next(j)
            IN  IF n.item.tag = "None" THEN <<>>
                ELSE <<n.item.payload[1]>> \o drain[n.it]
    IN  drain[i]

\* vec.choose(&mut rng): every element the generator may pick, None of an empty slice
choose(vec) ==
    IF Len(vec) = 0 THEN {None} ELSE {Some(vec[i]) : i \in 1 .. Len(vec)}

\* Option::unwrap
unwrap(o) ==
    IF o.tag = "None"
    THEN Panicked(0, <<>>, <<>>, "called 'Option::unwrap()' on a 'None' value")
    ELSE Returned(0, <<>>, <<>>, o.payload[1])

----------------------------------------------------------------------------
(* main(): one action per statement group; a panic ends the run. *)

CallRec(fn, arg, r) == [fn |-> fn, arg |-> arg, res |-> r]

\* println!(label, f(arg)) for each item in turn, stopping at the first panic:
\* the calls made, what was printed, and whether a call panicked
RunPrints(items) ==
    LET panics == {k \in 1 .. Len(items) : items[k].c.res.abort}
        last == IF panics = {} THEN Len(items)
                ELSE CHOOSE k \in panics : \A j \in panics : k <= j
        printed[k \in 1 .. last + 1] ==
            IF k > last THEN <<>>
            ELSE IF items[k].c.res.abort THEN items[k].c.res.out
            ELSE items[k].c.res.out
                    \o <<<<items[k].label, items[k].c.res.ret[1]>>>> \o printed[k + 1]
    IN  [out |-> printed[1],
         abort |-> panics # {},
         calls |-> [k \in 1 .. last |-> items[k].c]]

\* the step ends: on to `next`, or the process dies of the panic
Step(next, panicked, f, cs, printed) ==
    /\ pc' = IF panicked THEN "aborted" ELSE next
    /\ frame' = f
    /\ calls' = cs
    /\ out' = out \o printed
    /\ UNCHANGED <<overflow_checks, call, res, it, collected>>

defining_an_enum ==
    /\ pc = "defining_an_enum"
    /\ Step("enum_string_values", FALSE,
            [four |-> Variant("V4", <<>>), six |-> Variant("V6", <<>>)], <<>>, <<>>)

enum_string_values ==
    /\ pc = "enum_string_values"
    /\ LET f == [home |-> Variant("V4", <<"127.0.0.1">>),
                 loopback |-> Variant("V6", <<"::1">>)]
       IN  Step("enum_different_types", FALSE, f, <<>>,
                << <<"'home' is: ", f.home>>, <<"'loopback' is: ", f.loopback>> >>)

enum_different_types ==
    /\ pc = "enum_different_types"
    /\ LET f == [home |-> Variant("V4", <<127, 0, 0, 1>>),
                 loopback |-> Variant("V6", <<"::1">>)]
       IN  Step("enum_methods", FALSE, f, <<>>,
                << <<"'home' is: ", f.home>>, <<"'loopback' is: ", f.loopback>> >>)

\* the message enum_methods builds
enum_methods_m == Variant("Write", <<"hello">>)

enum_methods ==
    /\ pc = "enum_methods"
    /\ \E m \in {enum_methods_m} :
          \E r \in {Message_call(m)} :
             Step("option_type", r.abort, [m |-> m],
                  <<CallRec("Message::call", m, r)>>, r.out)

option_type ==
    /\ pc = "option_type"
    /\ LET f == [some_number |-> Some(5), some_char |-> Some("e"), absent_number |-> None]
       IN  Step("mcf_choose", FALSE, f, <<>>,
                << <<"'some_number' is: ", f.some_number>>,
                   <<"Type of variable 'some_number' is: ", "core::option::Option<i32>">>,
                   <<"'some_char' is: ", f.some_char>>,
                   <<"Type of variable 'some_char' is: ", "core::option::Option<char>">>,
                   <<"'absent_number' is: ", f.absent_number>>,
                   <<"Type of variable 'absent_number' is: ", "core::option::Option<i32>">> >>)

\* match_control_flow, lines 360-366: the locals and the random coin
mcf_choose ==
    /\ pc = "mcf_choose"
    /\ LET vec_coins == collect(EnumIter_new("Coin"))
       IN  \E o \in choose(vec_coins) :
              LET u == unwrap(o)
                  f == [penny |-> Variant("Penny", <<>>),
                        nickel |-> Variant("Nickel", <<>>),
                        dime |-> Variant("Dime", <<>>),
                        quarter |-> Variant("Quarter", <<>>),
                        vec_coins |-> vec_coins]
              IN  IF u.abort
                  THEN Step("mcf_print", TRUE, f, <<CallRec("unwrap", o, u)>>, u.out)
                  ELSE Step("mcf_print", FALSE, f @@ [random_coin |-> u.ret[1]],
                            <<CallRec("unwrap", o, u)>>, u.out)

\* match_control_flow, lines 368-375: the five prints
mcf_print ==
    /\ pc = "mcf_print"
    /\ LET V(c) == CallRec("value_in_cents", c, value_in_cents(c))
       IN  \E items \in {<<
                   [label |-> "'penny' value_in_cents = ", c |-> V(frame.penny)],
                   [label |-> "'nickel' value_in_cents = ", c |-> V(frame.nickel)],
                   [label |-> "'dime' value_in_cents = ", c |-> V(frame.dime)],
                   [label |-> "'quarter' value_in_cents = ", c |-> V(frame.quarter)],
                   [label |-> "'random_coin' value_in_cents = ", c |-> V(frame.random_coin)] >>} :
              \E p \in {RunPrints(items)} :
                 Step("mcfp_choose", p.abort, frame, p.calls, p.out)

\* match_control_flow_patterns, lines 435-443: the locals and the random coin
mcfp_choose ==
    /\ pc = "mcfp_choose"
    /\ LET vec_coins == collect(EnumIter_new("Coin2"))
       IN  \E o \in choose(vec_coins) :
              LET u == unwrap(o)
                  f == [penny |-> Variant("Penny", <<>>),
                        nickel |-> Variant("Nickel", <<>>),
                        dime |-> Variant("Dime", <<>>),
                        quarter |-> Variant("Quarter", <<UsState_default>>),
                        vec_coins |-> vec_coins,
                        vec_states |-> collect(EnumIter_new("UsState"))]
              IN  IF u.abort
                  THEN Step("mcfp_match", TRUE, f, <<CallRec("unwrap", o, u)>>, u.out)
                  ELSE Step("mcfp_match", FALSE, f @@ [random_coin |-> u.ret[1]],
                            <<CallRec("unwrap", o, u)>>, u.out)

mcfp_match_arms ==
    << PVariant("Penny", FALSE), PVariant("Nickel", FALSE),
       PVariant("Dime", FALSE), PVariant("Quarter", FALSE) >>

\* the match with every arm re-binding random_coin to a state quarter
mcfp_match_outcomes_all_rebind(f) ==
    {LET u == unwrap(o)
     IN  [arm |-> FirstMatch(mcfp_match_arms, f.random_coin), abort |-> FALSE,
          frame |-> [f EXCEPT !.random_coin = Variant("Quarter", <<u.ret[1]>>)]
                      @@ [random_state |-> u.ret[1]],
          calls |-> <<CallRec("unwrap", o, u)>>, out |-> u.out]
     : o \in choose(f.vec_states)}

\* match_control_flow_patterns, lines 445-459: what `match random_coin` may leave
\* in the frame f, each with the arm run and the unwrap made
mcfp_match_outcomes(f) ==
    LET arm == FirstMatch(mcfp_match_arms, f.random_coin)
    IN  IF arm \in {1, 2, 3}
        THEN {[arm |-> arm, abort |-> FALSE, frame |-> f, calls |-> <<>>, out |-> <<>>]}
        ELSE {LET u == unwrap(o)
              IN  IF u.abort
                  THEN [arm |-> arm, abort |-> TRUE, frame |-> f,
                        calls |-> <<CallRec("unwrap", o, u)>>, out |-> u.out]
                  ELSE [arm |-> arm, abort |-> FALSE,
                        frame |-> [f EXCEPT !.random_coin = Variant("Quarter", <<u.ret[1]>>)]
                                    @@ [random_state |-> u.ret[1]],
                        calls |-> <<CallRec("unwrap", o, u)>>, out |-> u.out]
              : o \in choose(f.vec_states)}

mcfp_match ==
    /\ pc = "mcfp_match"
    /\ \E m \in mcfp_match_outcomes(frame) :
          Step("mcfp_print", m.abort, m.frame, m.calls, m.out)

\* match_control_flow_patterns, lines 461-480: the five prints
mcfp_print ==
    /\ pc = "mcfp_print"
    /\ LET V(c) == CallRec("value_in_cents_state_quarters", c, value_in_cents_state_quarters(c))
       IN  \E items \in {<<
                   [label |-> "'penny' value_in_cents_state_quarters = ", c |-> V(frame.penny)],
                   [label |-> "'nickel' value_in_cents_state_quarters = ", c |-> V(frame.nickel)],
                   [label |-> "'dime' value_in_cents_state_quarters = ", c |-> V(frame.dime)],
                   [label |-> "'quarter' value_in_cents_state_quarters = ", c |-> V(frame.quarter)],
                   [label |-> "'random_coin' value_in_cents_state_quarters = ",
                    c |-> V(frame.random_coin)] >>} :
              \E p \in {RunPrints(items)} :
                 Step("matching_with_option_t", p.abort, frame, p.calls, p.out)

\* matching_with_option_t storing the sum back into five
matching_with_option_t_run_overwrites ==
    LET five == Some(5)
        r6 == plus_one(five)
        rn == plus_one(None)
        c6 == CallRec("plus_one", five, r6)
        cn == CallRec("plus_one", None, rn)
    IN  [abort |-> FALSE,
         frame |-> [five |-> r6.ret[1], six |-> r6.ret[1], none |-> rn.ret[1]],
         calls |-> <<c6, cn>>,
         out |-> r6.out \o rn.out \o
                 << <<"'five' is ", r6.ret[1]>>, <<"'six' is ", r6.ret[1]>>,
                    <<"'none' is ", rn.ret[1]>> >>]

\* the locals of matching_with_option_t once it has run, and the calls it made
matching_with_option_t_run ==
    LET five == Some(5)
        r6 == plus_one(five)
        rn == plus_one(None)
        c6 == CallRec("plus_one", five, r6)
        cn == CallRec("plus_one", None, rn)
    IN  IF r6.abort
        THEN [abort |-> TRUE, frame |-> [five |-> five], calls |-> <<c6>>, out |-> r6.out]
        ELSE IF rn.abort
        THEN [abort |-> TRUE, frame |-> [five |-> five, six |-> r6.ret[1]],
              calls |-> <<c6, cn>>, out |-> r6.out \o rn.out]
        ELSE [abort |-> FALSE,
              frame |-> [five |-> five, six |-> r6.ret[1], none |-> rn.ret[1]],
              calls |-> <<c6, cn>>,
              out |-> r6.out \o rn.out \o
                      << <<"'five' is ", five>>, <<"'six' is ", r6.ret[1]>>,
                         <<"'none' is ", rn.ret[1]>> >>]

matching_with_option_t ==
    /\ pc = "matching_with_option_t"
    /\ \E m \in {matching_with_option_t_run} :
          Step("plus_one_broken", m.abort, m.frame, m.calls, m.out)

\* main calling plus_one_broken with nothing
main_plus_one_broken_arg_none == None

\* the argument of main's call of plus_one_broken
main_plus_one_broken_arg == Some(1)

\* main, line 53: plus_one_broken(Some(1));
main_plus_one_broken ==
    /\ pc = "plus_one_broken"
    /\ \E x \in {main_plus_one_broken_arg} :
          \E r \in {plus_one_broken(x)} :
             Step("catch_all_patterns", r.abort, <<>>,
                  <<CallRec("plus_one_broken", x, r)>>, r.out)

catch_all_patterns ==
    /\ pc = "catch_all_patterns"
    /\ \E r \in {catch_all_patterns_match(DiceRoll)} :
           Step("catch_all_patterns_underscore_placeholder", r.abort,
                [dice_roll |-> DiceRoll],
                <<CallRec("catch_all_patterns_match", DiceRoll, r)>>, r.out)

catch_all_patterns_underscore_placeholder ==
    /\ pc = "catch_all_patterns_underscore_placeholder"
    /\ \E r \in {catch_all_patterns_underscore_placeholder_match(DiceRoll)} :
           Step("catch_all_patterns_noop_catchall", r.abort,
                [dice_roll |-> DiceRoll],
                <<CallRec("catch_all_patterns_underscore_placeholder_match", DiceRoll, r)>>,
                r.out)

catch_all_patterns_noop_catchall ==
    /\ pc = "catch_all_patterns_noop_catchall"
    /\ \E r \in {catch_all_patterns_noop_catchall_match(DiceRoll)} :
           Step("done", r.abort, [dice_roll |-> DiceRoll],
                <<CallRec("catch_all_patterns_noop_catchall_match", DiceRoll, r)>>, r.out)

\* no call made, nothing applied, no iterator
NoCall == [fn |-> "none", arg |-> Unit]
NoRes == Returned(0, <<>>, <<>>, Unit)
NoIter == [enum |-> "none", idx |-> 0]
NoneCollected == [items |-> <<>>, done |-> FALSE, last |-> [e \in Enums |-> <<>>]]

\* the process starts: main is entered
Init ==
    /\ overflow_checks \in BOOLEAN
    /\ pc = "defining_an_enum"
    /\ frame = <<>>
    /\ calls = <<>>
    /\ out = <<>>
    /\ call = NoCall
    /\ res = NoRes
    /\ it = NoIter
    /\ collected = NoneCollected

Next ==
    \/ defining_an_enum
    \/ enum_string_values
    \/ enum_different_types
    \/ enum_methods
    \/ option_type
    \/ mcf_choose
    \/ mcf_print
    \/ mcfp_choose
    \/ mcfp_match
    \/ mcfp_print
    \/ matching_with_option_t
    \/ main_plus_one_broken
    \/ catch_all_patterns
    \/ catch_all_patterns_underscore_placeholder
    \/ catch_all_patterns_noop_catchall

Spec == Init /\ [][Next]_vars

\* main is one sequential thread: a statement that can run does run
SpecFair == Spec /\ WF_vars(Next)

----------------------------------------------------------------------------
(* SpecCalls: each dispatching function applied to any value of its parameter type. *)

\* the state SpecCalls leaves alone
main_vars == <<overflow_checks, pc, frame, calls, out, it, collected>>

Called(fn, arg) == [fn |-> fn, arg |-> arg]

call_value_in_cents ==
    \E c \in CoinValues :
        /\ call' = Called("value_in_cents", c)
        /\ res' = value_in_cents(c)
        /\ UNCHANGED main_vars

call_value_in_cents_state_quarters ==
    \E c \in Coin2Values :
        /\ call' = Called("value_in_cents_state_quarters", c)
        /\ res' = value_in_cents_state_quarters(c)
        /\ UNCHANGED main_vars

call_plus_one ==
    \E x \in OptionI32Values :
        /\ call' = Called("plus_one", x)
        /\ res' = plus_one(x)
        /\ UNCHANGED main_vars

call_plus_one_broken ==
    \E x \in OptionI32Values :
        /\ call' = Called("plus_one_broken", x)
        /\ res' = plus_one_broken(x)
        /\ UNCHANGED main_vars

call_Message_call ==
    \E m \in MessageValues :
        /\ call' = Called("Message::call", m)
        /\ res' = Message_call(m)
        /\ UNCHANGED main_vars

call_catch_all_patterns_match ==
    \E d \in 0 .. MaxRoll :
        /\ call' = Called("catch_all_patterns_match", d)
        /\ res' = catch_all_patterns_match(d)
        /\ UNCHANGED main_vars

call_catch_all_patterns_underscore_placeholder_match ==
    \E d \in 0 .. MaxRoll :
        /\ call' = Called("catch_all_patterns_underscore_placeholder_match", d)
        /\ res' = catch_all_patterns_underscore_placeholder_match(d)
        /\ UNCHANGED main_vars

call_catch_all_patterns_noop_catchall_match ==
    \E d \in 0 .. MaxRoll :
        /\ call' = Called("catch_all_patterns_noop_catchall_match", d)
        /\ res' = catch_all_patterns_noop_catchall_match(d)
        /\ UNCHANGED main_vars

\* the `match random_coin` of match_control_flow_patterns, on any coin that
\* Coin2::iter() yields
call_random_coin_match ==
    \E c \in Range(collect(EnumIter_new("Coin2"))) :
        \E m \in mcfp_match_outcomes(
                    [random_coin |-> c, vec_states |-> collect(EnumIter_new("UsState"))]) :
            /\ call' = Called("random_coin_match", c)
            /\ res' = IF m.abort THEN Panicked(m.arm, <<>>, <<>>, "unwrap")
                      ELSE Returned(m.arm, <<>>, <<>>, m.frame.random_coin)
            /\ UNCHANGED main_vars

InitCalls ==
    /\ overflow_checks \in BOOLEAN
    /\ pc = "calls"
    /\ frame = <<>>
    /\ calls = <<>>
    /\ out = <<>>
    /\ call = NoCall
    /\ res = NoRes
    /\ it = NoIter
    /\ collected = NoneCollected

NextCalls ==
    \/ call_value_in_cents
    \/ call_value_in_cents_state_quarters
    \/ call_plus_one
    \/ call_plus_one_broken
    \/ call_Message_call
    \/ call_catch_all_patterns_match
    \/ call_catch_all_patterns_underscore_placeholder_match
    \/ call_catch_all_patterns_noop_catchall_match
    \/ call_random_coin_match

SpecCalls == InitCalls /\ [][NextCalls]_vars

----------------------------------------------------------------------------
(* SpecIter: E::iter() created and drained, any number of times, for each enum. *)

\* the two most recent full enumerations, the newest last
Remember(seen, items) ==
    IF Len(seen) < 2 THEN Append(seen, items) ELSE <<seen[2], items>>

\* let i = E::iter();
iter_new ==
    \E e \in Enums :
        /\ it' = EnumIter_new(e)
        /\ collected' = [collected EXCEPT !.items = <<>>, !.done = FALSE]
        /\ UNCHANGED <<overflow_checks, pc, frame, calls, out, call, res>>

\* i.next(), until it answers None
iter_next ==
    /\ it.enum \in Enums
    /\ ~collected.done
    /\ LET n == EnumIter_next(it)
       IN  /\ it' = n.it
           /\ collected' =
                 IF n.item.tag = "None"
                 THEN [collected EXCEPT
                          !.done = TRUE,
                          !.last[it.enum] = Remember(@, collected.items)]
                 ELSE [collected EXCEPT !.items = Append(@, n.item.payload[1])]
    /\ UNCHANGED <<overflow_checks, pc, frame, calls, out, call, res>>

InitIter ==
    /\ overflow_checks \in BOOLEAN
    /\ pc = "iter"
    /\ frame = <<>>
    /\ calls = <<>>
    /\ out = <<>>
    /\ call = NoCall
    /\ res = NoRes
    /\ it = NoIter
    /\ collected = NoneCollected

NextIter ==
    \/ iter_new
    \/ iter_next

SpecIter == InitIter /\ [][NextIter]_vars

----------------------------------------------------------------------------
(* The claims. *)

\* the value in cents the documentation gives each coin
Cents == [Penny |-> 1, Nickel |-> 5, Dime |-> 10, Quarter |-> 25]

\* C1: every call of value_in_cents that main makes (on penny, nickel, dime,
\* quarter and the randomly sampled coin) returns without a panic, runs the
\* arm whose pattern names the coin's tag, and returns that tag's fixed value
\* (Penny 1, Nickel 5, Dime 10, Quarter 25); the value printed for the random
\* coin is one of 1, 5, 10, 25.
C1_ValueInCents ==
    /\ \A k \in 1 .. Len(calls) :
          calls[k].fn = "value_in_cents" =>
             /\ ~calls[k].res.abort
             /\ value_in_cents_arms[calls[k].res.arm].tag = calls[k].arg.tag
             /\ calls[k].res.ret = <<Cents[calls[k].arg.tag]>>
    /\ pc = "mcfp_choose" =>
          /\ Len(calls) = 5
          /\ calls[5].arg = frame.random_coin
          /\ out[Len(out)] = <<"'random_coin' value_in_cents = ", Cents[frame.random_coin.tag]>>
          /\ out[Len(out)][2] \in {1, 5, 10, 25}

\* C1 witness: main has printed the value of a random coin that is a Dime
C1_Witness ==
    /\ pc = "mcfp_choose"
    /\ frame.random_coin.tag = "Dime"
    /\ calls[5].res.arm = 3
    /\ out[Len(out)][2] = 10

\* C2: value_in_cents_state_quarters applied to Quarter(s), for each of the 50
\* states s, returns 25, binds exactly s in the Quarter arm and prints s;
\* applied to Penny, Nickel or Dime it returns 1, 5 or 10, binds nothing and
\* prints nothing.
C2_StateQuarters ==
    call.fn = "value_in_cents_state_quarters" =>
       /\ ~res.abort
       /\ IF call.arg.tag = "Quarter"
          THEN /\ res.ret = <<25>>
               /\ res.bound = call.arg.payload
               /\ res.out = <<<<"State quarter from ", call.arg.payload[1].tag, "!">>>>
          ELSE /\ res.ret = <<Cents[call.arg.tag]>>
               /\ res.bound = <<>>
               /\ res.out = <<>>

\* C2 witness: Quarter(Texas) was dispatched and Texas was bound
C2_Witness ==
    /\ call.fn = "value_in_cents_state_quarters"
    /\ call.arg = Variant("Quarter", <<Variant("Texas", <<>>)>>)
    /\ res.bound = <<Variant("Texas", <<>>)>>
    /\ res.ret = <<25>>

\* C3 (as claimed): plus_one returns None for None without a panic, and for
\* every Some(i) returns, without a panic, Some(i + 1); so its result is
\* present exactly when its input is.
C3_PlusOne ==
    call.fn = "plus_one" =>
       /\ ~res.abort
       /\ Len(res.ret) = 1
       /\ IF call.arg.tag = "None"
          THEN res.ret[1] = None
          ELSE /\ res.ret[1].tag = "Some"
               /\ res.ret[1].payload[1] > call.arg.payload[1]
               /\ res.ret[1].payload[1] - call.arg.payload[1] = 1

\* C4: a placeholder arm panics when it runs and returns nothing:
\* plus_one_broken(None) panics in its None arm, Message::call panics for
\* Quit, Move and ChangeColor having printed nothing before; Message::call on
\* Write(s) prints s and returns normally.
C4_Placeholders ==
    /\ (call.fn = "plus_one_broken" /\ call.arg.tag = "None") =>
          /\ res.abort
          /\ res.arm = 2
          /\ res.ret = <<>>
          /\ res.out = <<<<"panic", "not yet implemented">>>>
    /\ (call.fn = "Message::call" /\ call.arg.tag \in {"Quit", "Move", "ChangeColor"}) =>
          /\ res.abort
          /\ res.ret = <<>>
          /\ res.out = <<<<"panic", "not implemented">>>>
    /\ (call.fn = "Message::call" /\ call.arg.tag = "Write") =>
          /\ ~res.abort
          /\ res.ret = <<Unit>>
          /\ res.out = <<<<"Message: ", call.arg.payload[1]>>>>

\* C4 witness: Message::call was applied to a Move message and panicked
C4_Witness ==
    /\ call.fn = "Message::call"
    /\ call.arg.tag = "Move"
    /\ res.abort
    /\ res.arm = 3

\* no step of main has panicked, every call main made returned, the only arm
\* Message::call and plus_one_broken ran is the one without a placeholder, and
\* every unwrap was of a sampled element
C5_NoPanic ==
    /\ pc # "aborted"
    /\ \A k \in 1 .. Len(calls) :
          /\ ~calls[k].res.abort
          /\ calls[k].fn = "Message::call" => calls[k].arg.tag = "Write"
          /\ calls[k].fn = "plus_one_broken" => calls[k].arg = Some(1)
          /\ calls[k].fn = "unwrap" => calls[k].arg.tag = "Some"
    /\ pc \in {"mcf_print", "mcfp_match"} => Len(frame.vec_coins) > 0
    /\ pc = "mcfp_match" => Len(frame.vec_states) > 0

\* C5: under every outcome of the random selections, main never panics (no
\* placeholder arm runs, no unwrap fails, the sampled vectors are not empty)
\* and runs to its end.
C5_MainCompletes == []C5_NoPanic /\ <>(pc = "done")

\* C5 witness: main has returned, having sampled a Quarter and then Wyoming
C5_Witness ==
    /\ pc = "done"
    /\ \E k \in 1 .. Len(out) :
          out[k] = <<"State quarter from ", "Wyoming", "!">>

\* C6: in each of the three dice-roll matches a roll of 3 runs the
\* add_fancy_hat arm, a roll of 7 the remove_fancy_hat arm, and every other
\* roll, the hardcoded 9 among them, the trailing catch-all: move_player with
\* exactly the roll, reroll, or nothing.
C6_CatchAll ==
    call.fn \in {"catch_all_patterns_match",
                 "catch_all_patterns_underscore_placeholder_match",
                 "catch_all_patterns_noop_catchall_match"} =>
       /\ ~res.abort
       /\ call.arg = 3 => res.arm = 1 /\ res.did = <<<<"add_fancy_hat">>>>
       /\ call.arg = 7 => res.arm = 2 /\ res.did = <<<<"remove_fancy_hat">>>>
       /\ call.arg \notin {3, 7} =>
             /\ res.arm = 3
             /\ res.did =
                   CASE call.fn = "catch_all_patterns_match" ->
                            <<<<"move_player", call.arg>>>>
                     [] call.fn = "catch_all_patterns_underscore_placeholder_match" ->
                            <<<<"reroll">>>>
                     [] call.fn = "catch_all_patterns_noop_catchall_match" -> <<>>
       /\ call.arg = DiceRoll => res.arm = 3

\* C6 witness: the first match was applied to a roll of 7, which both the arm
\* for 7 and the catch-all match, and ran the arm for 7
C6_Witness ==
    /\ call.fn = "catch_all_patterns_match"
    /\ call.arg = 7
    /\ MatchingArms(catch_all_patterns_arms, call.arg) = {2, 3}
    /\ res.arm = 2

\* C7: a drained iterator has yielded exactly the enum's tags, each once, in
\* declaration order: 4 for Coin and Coin2 (Penny, Nickel, Dime, Quarter), 50
\* for UsState (Alabama first, Wyoming last); and successive enumerations of
\* an enum yield the same sequence.
C7_Enumeration ==
    /\ collected.done =>
          LET items == collected.items
              n == IF it.enum = "UsState" THEN 50 ELSE 4
          IN  /\ Len(items) = n
              /\ \A i, j \in 1 .. Len(items) : i # j => items[i].tag # items[j].tag
              /\ [i \in 1 .. Len(items) |-> items[i].tag] = EnumVariants(it.enum)
              /\ it.enum \in {"Coin", "Coin2"} =>
                    [i \in 1 .. Len(items) |-> items[i].tag]
                       = <<"Penny", "Nickel", "Dime", "Quarter">>
              /\ it.enum = "UsState" =>
                    items[1].tag = "Alabama" /\ items[Len(items)].tag = "Wyoming"
    /\ \A e \in Enums :
          \A i, j \in 1 .. Len(collected.last[e]) :
             collected.last[e][i] = collected.last[e][j]

\* C7 witness: UsState has been enumerated in full twice over
C7_Witness ==
    /\ collected.done
    /\ it.enum = "UsState"
    /\ Len(collected.items) = 50
    /\ Len(collected.last["UsState"]) = 2

\* the arms of each dispatch over an enum
DispatchArms ==
    [f \in {"value_in_cents", "value_in_cents_state_quarters", "plus_one",
            "plus_one_broken", "Message::call", "random_coin_match"} |->
        CASE f = "value_in_cents" -> value_in_cents_arms
          [] f = "value_in_cents_state_quarters" -> value_in_cents_state_quarters_arms
          [] f = "plus_one" -> plus_one_arms
          [] f = "plus_one_broken" -> plus_one_broken_arms
          [] f = "Message::call" -> Message_call_arms
          [] f = "random_coin_match" -> mcfp_match_arms]

\* C9: the value a dispatch over an enum is applied to holds one tag, exactly
\* one arm of the dispatch matches it, that arm is the one that ran, and
\* trying the arms in any other order runs the same arm.
C9_ExactlyOneArm ==
    call.fn \in DOMAIN DispatchArms =>
       LET arms == DispatchArms[call.fn]
       IN  /\ DOMAIN call.arg = {"tag", "payload"}
           /\ Cardinality(MatchingArms(arms, call.arg)) = 1
           /\ res.arm \in MatchingArms(arms, call.arg)
           /\ \A order \in Permutations(1 .. Len(arms)) :
                 FirstMatchIn(arms, call.arg, order) = res.arm

\* C9 witness: Message::call was applied to a ChangeColor message, which its
\* last arm alone matches
C9_Witness ==
    /\ call.fn = "Message::call"
    /\ call.arg.tag = "ChangeColor"
    /\ MatchingArms(Message_call_arms, call.arg) = {4}
    /\ res.arm = 4

\* the coins among main's locals
CoinLocals == {"penny", "nickel", "dime", "quarter", "random_coin"}

\* a step of prints passes each coin to the dispatch and leaves every coin
\* local as it was
C10_PrintsKeepCoins ==
    pc \in {"mcf_print", "mcfp_print"} =>
       /\ DOMAIN frame' = DOMAIN frame
       /\ \A x \in CoinLocals : frame'[x] = frame[x]
       /\ \A k \in 1 .. Len(calls') : \E x \in CoinLocals : calls'[k].arg = frame'[x]
       /\ Len(calls') = 5

\* once matching_with_option_t has run, five is still Some(5), the value
\* passed to plus_one, and six is another value, Some(6)
C10_FiveKept ==
    pc = "plus_one_broken" =>
       /\ frame.five = Some(5)
       /\ calls[1].fn = "plus_one"
       /\ calls[1].arg = frame.five
       /\ frame.six = Some(6)
       /\ frame.six = calls[1].res.ret[1]

\* C10: dispatching on a value leaves it unchanged: the coins passed to
\* value_in_cents and value_in_cents_state_quarters keep their tag and payload,
\* and after six = plus_one(five), five is still Some(5) and six is Some(6).
C10_DispatchKeepsValue == [][C10_PrintsKeepCoins]_vars /\ []C10_FiveKept

\* C10 witness: matching_with_option_t has run, after the prints of a random
\* Quarter(Texas)
C10_Witness ==
    /\ pc = "plus_one_broken"
    /\ frame.five = Some(5)
    /\ frame.six = Some(6)
    /\ \E k \in 1 .. Len(out) :
          out[k] = <<"State quarter from ", "Texas", "!">>

\* Quarter(Virginia)
QuarterVirginia == Variant("Quarter", <<Variant("Virginia", <<>>)>>)

\* C11: every UsState::default() made in match_control_flow_patterns is
\* Virginia: the local `quarter` is Quarter(Virginia), and so is the Quarter
\* that Coin2::iter() yields; the dispatch of `quarter` binds and prints
\* Virginia and returns 25.
C11_DefaultVirginia ==
    /\ pc \in {"mcfp_match", "mcfp_print", "matching_with_option_t"} =>
          /\ frame.quarter = QuarterVirginia
          /\ frame.vec_coins[4] = QuarterVirginia
    /\ pc = "matching_with_option_t" =>
          /\ calls[4].fn = "value_in_cents_state_quarters"
          /\ calls[4].arg = frame.quarter
          /\ calls[4].res.bound = <<Variant("Virginia", <<>>)>>
          /\ calls[4].res.out = <<<<"State quarter from ", "Virginia", "!">>>>
          /\ calls[4].res.ret = <<25>>

\* C11 witness: `quarter` has been dispatched in a run whose random coin is a
\* quarter of another state
C11_Witness ==
    /\ pc = "matching_with_option_t"
    /\ frame.random_coin.tag = "Quarter"
    /\ frame.random_state.tag = "Ohio"
    /\ calls[4].res.bound = <<Variant("Virginia", <<>>)>>

\* C12 (as claimed): for every i32 i, the greatest included, plus_one(Some(i))
\* returns, without a panic and without wrapping around, Some(i + 1).
C12_PlusOneTotal ==
    (call.fn = "plus_one" /\ call.arg.tag = "Some") =>
       /\ ~res.abort
       /\ res.ret # <<>>
       /\ res.ret[1].tag = "Some"
       /\ res.ret[1].payload[1] > call.arg.payload[1]
       /\ res.ret[1].payload[1] - call.arg.payload[1] = 1

\* the step `match random_coin` keeps the coin's tag and every other local: a
\* Penny, Nickel or Dime is left as it is and nothing is sampled, a Quarter
\* becomes Quarter(s) for the sampled s, one of the 50 states
C13_MatchKeepsTag ==
    (pc = "mcfp_match" /\ pc' # "aborted") =>
       /\ frame'.random_coin.tag = frame.random_coin.tag
       /\ \A x \in DOMAIN frame \ {"random_coin"} : frame'[x] = frame[x]
       /\ IF frame.random_coin.tag \in {"Penny", "Nickel", "Dime"}
          THEN frame' = frame /\ calls' = <<>>
          ELSE /\ frame'.random_coin \in Coin2Values
               /\ frame'.random_coin.payload = <<frame'.random_state>>
               /\ \E i \in 1 .. 50 : frame'.random_state.tag = UsState[i]

\* the value printed for random_coin is 25 exactly when it is a Quarter
C13_Reported ==
    pc = "matching_with_option_t" =>
       /\ calls[5].arg = frame.random_coin
       /\ ~calls[5].res.abort
       /\ out[Len(out)][2] = calls[5].res.ret[1]
       /\ calls[5].res.ret = <<25>> <=> frame.random_coin.tag = "Quarter"

\* C13: the re-binding of the sampled coin in match_control_flow_patterns
\* preserves its tag: Penny, Nickel and Dime are left unchanged, Quarter is
\* replaced as a whole by Quarter(s), s one of the 50 states; the value then
\* reported is 25 exactly when the sampled tag is Quarter.
C13_Rebinding == [][C13_MatchKeepsTag]_vars /\ []C13_Reported

\* C13 witness: a sampled Quarter was re-bound to Quarter(Wyoming) and 25 was
\* reported for it
C13_Witness ==
    /\ pc = "matching_with_option_t"
    /\ frame.random_coin = Variant("Quarter", <<Variant("Wyoming", <<>>)>>)
    /\ out[Len(out)][2] = 25

\* C14: on every present input plus_one and plus_one_broken do the same: the
\* same value returned, or (at the greatest i32) the same overflow; on the
\* absent input plus_one returns None and plus_one_broken panics.
C14_SameOnPresent ==
    call.fn \in {"plus_one", "plus_one_broken"} =>
       LET other == IF call.fn = "plus_one" THEN plus_one_broken(call.arg)
                    ELSE plus_one(call.arg)
           good == IF call.fn = "plus_one" THEN res ELSE other
           broken == IF call.fn = "plus_one" THEN other ELSE res
       IN  IF call.arg.tag = "Some"
           THEN /\ res.ret = other.ret
                /\ res.abort = other.abort
                /\ res.bound = other.bound
                /\ res.out = other.out
           ELSE /\ ~good.abort
                /\ good.ret = <<None>>
                /\ broken.abort
                /\ broken.ret = <<>>

\* C14 witness: plus_one_broken was applied to Some(5) and returned Some(6)
C14_Witness ==
    /\ call.fn = "plus_one_broken"
    /\ call.arg = Some(5)
    /\ res.ret = <<Some(6)>>
    /\ plus_one(call.arg).ret = <<Some(6)>>

\* C15: what value_in_cents_state_quarters returns depends on the coin's tag
\* alone: every Coin2 value of the same tag, whatever state it carries,
\* returns the same value, 25 for every Quarter, and that value is what
\* value_in_cents returns for the Coin of the same name.
C15_TagOnly ==
    call.fn = "value_in_cents_state_quarters" =>
       /\ ~res.abort
       /\ \A c \in Coin2Values :
             c.tag = call.arg.tag => value_in_cents_state_quarters(c).ret = res.ret
       /\ call.arg.tag = "Quarter" => res.ret = <<25>>
       /\ res.ret = value_in_cents(Variant(call.arg.tag, <<>>)).ret

\* C15 witness: a Quarter of a state other than the default was valued at 25
C15_Witness ==
    /\ call.fn = "value_in_cents_state_quarters"
    /\ call.arg.tag = "Quarter"
    /\ call.arg.payload[1].tag = "Alaska"
    /\ res.ret = <<25>>

====
